---- MODULE Spec2Model ----
(***************************************************************************)
(* Model of the batch ETL pipeline of src/etl_run.py: extract, validate    *)
(* and clean, aggregate to daily merchant metrics, and load both entity    *)
(* types into the SQL sink with the stage-then-MERGE pattern.              *)
(*                                                                         *)
(* Text cells are sequences of tokens; the token " " is whitespace, so     *)
(* that stripping, numeric parsing and timestamp parsing are computed and  *)
(* not assumed.  A missing cell (pandas NaN) is the empty sequence.        *)
(* Amounts are whole currency units; rates are in 1/10000, average         *)
(* tickets in 1/100.  The sink clock (SYSUTCDATETIME) is the run number.   *)
(***************************************************************************)
EXTENDS Integers, Sequences, FiniteSets, Bags, TLC

VARIABLES
    files,       \* the two input files on disk: headers and raw rows
    merchants,   \* in-memory merchants DataFrame: [columns, rows]
    txns,        \* in-memory transactions DataFrame: [columns, rows]
    clean_txns,  \* rows kept by validate_and_clean
    stats,       \* RunStats
    daily,       \* rows produced by transform_daily_metrics
    db,          \* committed state of the sink
    tx,          \* working copy of the open transaction, or NoTx
    pc,          \* position of main
    err,         \* the error that aborted the run, or NoErr
    summary,     \* TRUE once the run summary was printed
    run,         \* number of the current invocation of main
    hist         \* history of the behaviour, read only by the properties

vars == <<files, merchants, txns, clean_txns, stats, daily, db, tx, pc, err,
          summary, run, hist>>

-----------------------------------------------------------------------------
(* Bounds *)

MaxTxns == 2

MaxRunTxns == 2

MaxRuns == 2

-----------------------------------------------------------------------------
(* Text *)

SP == " "

NaN == <<>>

\* Series.astype(str): a missing cell becomes the text "nan"
AsStr(c) == IF c = NaN THEN <<"nan">> ELSE c

RECURSIVE LStrip(_)
LStrip(s) == IF s # <<>> /\ Head(s) = SP THEN LStrip(Tail(s)) ELSE s

RECURSIVE RStrip(_)
RStrip(s) ==
    IF s # <<>> /\ s[Len(s)] = SP THEN RStrip(SubSeq(s, 1, Len(s) - 1)) ELSE s

\* str.strip()
Strip(s) == RStrip(LStrip(s))

\* Series.astype(str).str.strip()
StripCell(c) == Strip(AsStr(c))

Digits == {"0", "1", "2", "3", "4", "5", "6", "7", "8", "9"}

DigitVal(t) ==
    CASE t = "0" -> 0 [] t = "1" -> 1 [] t = "2" -> 2 [] t = "3" -> 3
      [] t = "4" -> 4 [] t = "5" -> 5 [] t = "6" -> 6 [] t = "7" -> 7
      [] t = "8" -> 8 [] t = "9" -> 9

RECURSIVE DigitsVal(_)
DigitsVal(s) ==
    IF s = <<>> THEN 0
    ELSE 10 * DigitsVal(SubSeq(s, 1, Len(s) - 1)) + DigitVal(s[Len(s)])

AllDigits(s) == s # <<>> /\ \A i \in 1..Len(s) : s[i] \in Digits

\* pd.to_numeric(errors="coerce") of one text cell
ToNumeric(s) ==
    IF AllDigits(s) THEN [notna |-> TRUE, num |-> DigitsVal(s)]
    ELSE IF s # <<>> /\ Head(s) = "-" /\ AllDigits(Tail(s))
         THEN [notna |-> TRUE, num |-> 0 - DigitsVal(Tail(s))]
         ELSE [notna |-> FALSE, num |-> 0]

DayNo == ("2026-01-01" :> 1) @@ ("2026-01-02" :> 2)

HourNo == ("10:00:00" :> 10) @@ ("23:00:00" :> 23)

ZoneOffset == ("Z" :> 0) @@ ("-05:00" :> (0 - 5))

HoursPerDay == 24

\* pd.to_datetime(errors="coerce", utc=True) of one text cell: the instant in
\* hours, converted to UTC
ToDatetime(s) ==
    IF /\ Len(s) = 4
       /\ s[1] \in DOMAIN DayNo
       /\ s[2] = "T"
       /\ s[3] \in DOMAIN HourNo
       /\ s[4] \in DOMAIN ZoneOffset
    THEN [notna |-> TRUE,
          ts |-> DayNo[s[1]] * HoursPerDay + HourNo[s[3]] - ZoneOffset[s[4]]]
    ELSE [notna |-> FALSE, ts |-> 0]

\* Series.dt.date of a UTC instant
DtDate(ts) == ts \div HoursPerDay

-----------------------------------------------------------------------------
(* Sequences *)

RECURSIVE SelectIdx(_, _, _)
\* the rows s[i], i >= from, with keep[i], in order
SelectIdx(s, keep, from) ==
    IF from > Len(s) THEN <<>>
    ELSE (IF keep[from] THEN <<s[from]>> ELSE <<>>)
         \o SelectIdx(s, keep, from + 1)

RECURSIVE SumSeq(_)
SumSeq(s) == IF s = <<>> THEN 0 ELSE Head(s) + SumSeq(Tail(s))

Range(s) == {s[i] : i \in 1..Len(s)}

-----------------------------------------------------------------------------
(* Validate / Clean *)

required_merch_cols == {<<"merchant_id">>, <<"merchant_name">>}

\* "status" is not required: a variant
required_txn_cols_no_status ==
    {<<"transaction_id">>, <<"merchant_id">>, <<"txn_ts_utc">>, <<"amount">>}

required_txn_cols ==
    {<<"transaction_id">>, <<"merchant_id">>, <<"txn_ts_utc">>, <<"amount">>,
     <<"status">>}

NoErr == [kind |-> "none"]

ValueError(file, missing) ==
    [kind |-> "ValueError", file |-> file, missing |-> missing]

\* columns = [c.strip() for c in columns]
NormalizeColumns(columns) == [i \in 1..Len(columns) |-> Strip(columns[i])]

\* the cell of row r under column name c; a column the file lacks has no cell
StripCols(r, columns, fields) ==
    [f \in DOMAIN r |->
        IF f \in fields /\ <<f>> \in Range(columns) THEN StripCell(r[f])
        ELSE r[f]]

MerchFields == {"merchant_id", "merchant_name", "category", "city", "state"}

TxnFields == {"transaction_id", "merchant_id", "txn_ts_utc", "amount", "status"}

\* drop_duplicates(subset=["transaction_id"], keep="last"): a variant
DropDuplicatesKeepLast(rows) ==
    SelectIdx(rows,
              [i \in 1..Len(rows) |->
                  \A j \in (i + 1)..Len(rows) :
                      rows[j].transaction_id # rows[i].transaction_id],
              1)

\* drop_duplicates(subset=["transaction_id"], keep="first")
DropDuplicates(rows) ==
    SelectIdx(rows,
              [i \in 1..Len(rows) |->
                  \A j \in 1..(i - 1) :
                      rows[j].transaction_id # rows[i].transaction_id],
              1)

ParseTypes(r) ==
    [index |-> r.index,
     transaction_id |-> r.transaction_id,
     merchant_id |-> r.merchant_id,
     txn_ts_utc |-> r.txn_ts_utc,
     amount |-> r.amount,
     status |-> r.status,
     amount_num |-> ToNumeric(r.amount),
     txn_ts |-> ToDatetime(r.txn_ts_utc)]

\* no test of the status: a variant
valid_status_any(r) == TRUE

valid_status(r) == r.status \in {<<"APPROVED">>, <<"DECLINED">>}

\* notna() & (amount_num >= 0): a variant
valid_amount_nonneg(r) == r.amount_num.notna /\ r.amount_num.num >= 0

valid_amount(r) == r.amount_num.notna /\ r.amount_num.num > 0

valid_ts(r) == r.txn_ts.notna

merchant_ids(mrows) == {mrows[i].merchant_id : i \in 1..Len(mrows)}

\* no membership test: a variant
valid_merchant_any(r, ids) == TRUE

valid_merchant(r, ids) == r.merchant_id \in ids

is_valid(r, ids) ==
    valid_status(r) /\ valid_amount(r) /\ valid_ts(r) /\ valid_merchant(r, ids)

EmptyStats ==
    [txns_total |-> 0, txns_after_dedupe |-> 0, txns_valid |-> 0,
     txns_rejected |-> 0, merchants_loaded |-> 0, daily_rows |-> 0,
     fact_rows_upserted |-> 0]

\* validate_and_clean(merchants, txns): the error raised, or the cleaned
\* rows and counters, with both frames as the function leaves them
validate_and_clean(m, t) ==
    LET mcols == NormalizeColumns(m.columns)
        tcols == NormalizeColumns(t.columns)
        st0 == [EmptyStats EXCEPT !.txns_total = Len(t.rows)]
        m1 == [columns |-> mcols, rows |-> m.rows]
        t1 == [columns |-> tcols, rows |-> t.rows]
    IN
    IF ~(required_merch_cols \subseteq Range(mcols))
    THEN [err |-> ValueError("merchants.csv",
                             required_merch_cols \ Range(mcols)),
          merchants |-> m1, txns |-> t1, clean_txns |-> <<>>, stats |-> st0]
    ELSE IF ~(required_txn_cols \subseteq Range(tcols))
    THEN [err |-> ValueError("transactions.csv",
                             required_txn_cols \ Range(tcols)),
          merchants |-> m1, txns |-> t1, clean_txns |-> <<>>, stats |-> st0]
    ELSE
    LET mrows == [i \in 1..Len(m.rows) |->
                     StripCols(m.rows[i], mcols, MerchFields)]
        trows == [i \in 1..Len(t.rows) |->
                     StripCols(t.rows[i], tcols, TxnFields)]
        deduped == DropDuplicates(trows)
        parsed == [i \in 1..Len(deduped) |-> ParseTypes(deduped[i])]
        ids == merchant_ids(mrows)
        clean == SelectIdx(parsed,
                           [i \in 1..Len(parsed) |-> is_valid(parsed[i], ids)],
                           1)
    IN [err |-> NoErr,
        merchants |-> [columns |-> mcols, rows |-> mrows],
        txns |-> [columns |-> tcols, rows |-> trows],
        clean_txns |-> clean,
        stats |-> [st0 EXCEPT !.txns_after_dedupe = Len(deduped),
                              !.txns_valid = Len(clean),
                              !.txns_rejected = Len(deduped) - Len(clean)]]

-----------------------------------------------------------------------------
(* Transform (daily merchant metrics) *)

\* round() of n/d to the nearest integer, ties to even (n >= 0, d > 0)
RoundDiv(n, d) ==
    LET q == n \div d
        r == n % d
    IN IF 2 * r > d THEN q + 1
       ELSE IF 2 * r < d THEN q
       ELSE IF q % 2 = 0 THEN q ELSE q + 1

RateScale == 10000

TicketScale == 100

\* the date part of the text, with no conversion to UTC: a variant
metric_date_local(r) == DayNo[r.txn_ts_utc[1]]

\* clean_txns["txn_ts"].dt.date
metric_date(r) == DtDate(r.txn_ts.ts)

is_approved(r) == IF r.status = <<"APPROVED">> THEN 1 ELSE 0

is_declined(r) == IF r.status = <<"DECLINED">> THEN 1 ELSE 0

approved_amount(r) ==
    IF r.status = <<"APPROVED">> THEN r.amount_num.num ELSE 0

amount_num(r) == r.amount_num.num

\* the rows of one group, in order
GroupRows(clean, d, m) ==
    SelectIdx(clean,
              [i \in 1..Len(clean) |->
                  metric_date(clean[i]) = d /\ clean[i].merchant_id = m],
              1)

\* one row of agg: the aggregates of the group (d, m) and its derived metrics
AggRow(clean, d, m) ==
    LET g == GroupRows(clean, d, m)
        txn_count == Len(g)
        approved_txn_count == SumSeq([i \in 1..Len(g) |-> is_approved(g[i])])
        gross_amount == SumSeq([i \in 1..Len(g) |-> amount_num(g[i])])
    IN [metric_date |-> d,
        merchant_id |-> m,
        txn_count |-> txn_count,
        approved_txn_count |-> approved_txn_count,
        declined_txn_count |-> SumSeq([i \in 1..Len(g) |-> is_declined(g[i])]),
        gross_amount |-> gross_amount,
        approved_amount |-> SumSeq([i \in 1..Len(g) |-> approved_amount(g[i])]),
        approval_rate |-> RoundDiv(approved_txn_count * RateScale, txn_count),
        avg_ticket |-> RoundDiv(gross_amount * TicketScale, txn_count)]

\* groupby(["metric_date", "merchant_id"]).agg(...) with the derived metrics;
\* the frame is held as the set of its rows (one per group key)
transform_daily_metrics(clean) ==
    {AggRow(clean, k[1], k[2]) :
        k \in {<<metric_date(clean[i]), clean[i].merchant_id>> :
                  i \in 1..Len(clean)}}

-----------------------------------------------------------------------------
(* The sink *)

NULL == <<"NULL">>

Absent == [exists |-> FALSE, rows |-> EmptyBag]

EmptyTable == [exists |-> TRUE, rows |-> EmptyBag]

NoTx == [open |-> FALSE]

RECURSIVE SeqToBag(_)
SeqToBag(s) ==
    IF s = <<>> THEN EmptyBag ELSE SetToBag({Head(s)}) (+) SeqToBag(Tail(s))

\* the rows of a staging table, each once
StagedRows(stg) == BagToSet(stg.rows)

MerchKey(r) == r.merchant_id

FactKey(r) == <<r.metric_date, r.merchant_id>>

\* two rows of the staging table have one merchant_id: the MERGE would update
\* one target row twice, or insert one primary key twice
DuplicateMerchKey(stg) ==
    \/ \E r \in StagedRows(stg) : CopiesIn(r, stg.rows) > 1
    \/ \E r1, r2 \in StagedRows(stg) : r1 # r2 /\ MerchKey(r1) = MerchKey(r2)

\* two rows of the staging table have one (metric_date, merchant_id)
DuplicateFactKey(stg) ==
    \/ \E r \in StagedRows(stg) : CopiesIn(r, stg.rows) > 1
    \/ \E r1, r2 \in StagedRows(stg) : r1 # r2 /\ FactKey(r1) = FactKey(r2)

\* merchants_to_load: the five columns, None for a column the frame lacks
merchants_to_load(m) ==
    [i \in 1..Len(m.rows) |->
        [f \in MerchFields |->
            IF <<f>> \in Range(m.columns) THEN m.rows[i][f] ELSE NULL]]

\* WHEN MATCHED updates merchant_name alone: a variant
MergeMerchantsNameOnly(target, stg, now) ==
    LET src == StagedRows(stg)
        srcFor(k) == CHOOSE r \in src : MerchKey(r) = k
        matched == {t \in target : \E r \in src : MerchKey(r) = MerchKey(t)}
    IN (target \ matched)
       \cup {[t EXCEPT !.merchant_name = srcFor(MerchKey(t)).merchant_name] :
                t \in matched}
       \cup {[merchant_id |-> r.merchant_id,
              merchant_name |-> r.merchant_name,
              category |-> r.category,
              city |-> r.city,
              state |-> r.state,
              created_at_utc |-> now] :
                r \in {x \in src : \A t \in target : MerchKey(t) # MerchKey(x)}}

\* MERGE dbo.dim_merchants: UPDATE the matched rows, INSERT the others with
\* created_at_utc defaulting to the clock
MergeMerchants(target, stg, now) ==
    LET src == StagedRows(stg)
        srcFor(k) == CHOOSE r \in src : MerchKey(r) = k
        matched == {t \in target : \E r \in src : MerchKey(r) = MerchKey(t)}
    IN (target \ matched)
       \cup {[merchant_id |-> t.merchant_id,
              merchant_name |-> srcFor(MerchKey(t)).merchant_name,
              category |-> srcFor(MerchKey(t)).category,
              city |-> srcFor(MerchKey(t)).city,
              state |-> srcFor(MerchKey(t)).state,
              created_at_utc |-> t.created_at_utc] : t \in matched}
       \cup {[merchant_id |-> r.merchant_id,
              merchant_name |-> r.merchant_name,
              category |-> r.category,
              city |-> r.city,
              state |-> r.state,
              created_at_utc |-> now] :
                r \in {x \in src : \A t \in target : MerchKey(t) # MerchKey(x)}}

FactRow(r, loaded) ==
    [metric_date |-> r.metric_date,
     merchant_id |-> r.merchant_id,
     txn_count |-> r.txn_count,
     approved_txn_count |-> r.approved_txn_count,
     declined_txn_count |-> r.declined_txn_count,
     gross_amount |-> r.gross_amount,
     approved_amount |-> r.approved_amount,
     approval_rate |-> r.approval_rate,
     avg_ticket |-> r.avg_ticket,
     loaded_at_utc |-> loaded]

\* WHEN MATCHED adds the staged counts and amounts to the target's: a variant
MergeFactsAdding(target, stg, now) ==
    LET src == StagedRows(stg)
        srcFor(k) == CHOOSE r \in src : FactKey(r) = k
        matched == {t \in target : \E r \in src : FactKey(r) = FactKey(t)}
    IN (target \ matched)
       \cup {[FactRow(srcFor(FactKey(t)), t.loaded_at_utc)
                 EXCEPT !.txn_count = @ + t.txn_count,
                        !.gross_amount = @ + t.gross_amount] : t \in matched}
       \cup {FactRow(r, now) :
                r \in {x \in src : \A t \in target : FactKey(t) # FactKey(x)}}

\* MERGE dbo.fact_daily_merchant_metrics: UPDATE the matched rows, INSERT the
\* others with loaded_at_utc defaulting to the clock
MergeFacts(target, stg, now) ==
    LET src == StagedRows(stg)
        srcFor(k) == CHOOSE r \in src : FactKey(r) = k
        matched == {t \in target : \E r \in src : FactKey(r) = FactKey(t)}
    IN (target \ matched)
       \cup {FactRow(srcFor(FactKey(t)), t.loaded_at_utc) : t \in matched}
       \cup {FactRow(r, now) :
                r \in {x \in src : \A t \in target : FactKey(t) # FactKey(x)}}

\* FK_fact_daily_merchants: every staged merchant_id is a dim_merchants key
ForeignKeyHolds(stg, dim) ==
    \A r \in StagedRows(stg) : \E d \in dim : d.merchant_id = r.merchant_id

SinkError(reason) == [kind |-> "SinkError", reason |-> reason]

-----------------------------------------------------------------------------
(* Inputs *)

FullMerchCols ==
    <<<<"merchant_id">>, <<"merchant_name">>, <<"category">>, <<"city">>,
      <<"state">>>>

\* the header as written, " merchant_name" with a leading blank
PaddedMerchCols ==
    <<<<"merchant_id">>, <<SP, "merchant_name">>, <<"category">>, <<"city">>,
      <<"state">>>>

MinimalMerchCols == <<<<"merchant_id">>, <<"merchant_name">>>>

NoNameMerchCols == <<<<"merchant_id">>, <<"category">>>>

FullTxnCols ==
    <<<<"transaction_id">>, <<"merchant_id">>, <<"txn_ts_utc">>, <<"amount">>,
      <<"status", SP>>>>

NoStatusTxnCols ==
    <<<<"transaction_id">>, <<"merchant_id">>, <<"txn_ts_utc">>, <<"amount">>>>

NoAmountIdTxnCols ==
    <<<<"merchant_id">>, <<"txn_ts_utc">>, <<"status">>>>

MerchantRow(id, name, category) ==
    [merchant_id |-> id, merchant_name |-> name, category |-> category,
     city |-> <<"Irvine">>, state |-> <<"CA", SP>>]

M1 == MerchantRow(<<"m1">>, <<"Sunrise", SP, "Coffee">>, <<"Cafe">>)

M1Padded == MerchantRow(<<SP, "m1">>, <<"Sunrise", SP, "Cafe">>, NaN)

M2 == MerchantRow(<<"m2", SP>>, <<"Ocean">>, <<"Retail">>)

TxnRow(id, m, p) ==
    [transaction_id |-> id, merchant_id |-> m, txn_ts_utc |-> p[1],
     amount |-> p[2], status |-> p[3]]

Day1Z == <<"2026-01-01", "T", "10:00:00", "Z">>

\* 23:00 at UTC-5 on 1 January is 04:00 UTC on 2 January
Day1Late == <<"2026-01-01", "T", "23:00:00", "-05:00">>

Day2Z == <<"2026-01-02", "T", "10:00:00", "Z">>

TxnIds == {<<"t1">>, <<SP, "t1", SP>>, <<"t2">>}

TxnMerchantIds == {<<"m1">>, <<"m2">>}

\* timestamp, amount, status
ValidPayloads ==
    {<<Day1Z, <<"1", "0">>, <<"APPROVED">>>>,
     <<Day1Z, <<"2", "0">>, <<"DECLINED", SP>>>>,
     <<Day1Late, <<"5">>, <<"APPROVED">>>>,
     <<Day2Z, <<SP, "5">>, <<"DECLINED">>>>}

InvalidPayloads ==
    {<<Day1Z, <<"-", "5">>, <<"APPROVED">>>>,
     <<Day1Z, <<"0">>, <<"DECLINED">>>>,
     <<Day1Z, <<"1", "x">>, <<"APPROVED">>>>,
     <<<<"2026-01-01">>, <<"5">>, <<"APPROVED">>>>,
     <<Day1Z, <<"5">>, <<"PENDING">>>>,
     <<NaN, NaN, NaN>>}

\* every identifier and merchant with the payloads that can be valid, and one
\* row for each payload that cannot
TxnRows ==
    {TxnRow(id, m, p) : id \in TxnIds, m \in TxnMerchantIds, p \in ValidPayloads}
    \cup {TxnRow(<<"t1">>, <<"m1">>, p) : p \in InvalidPayloads}

\* the rows of whole runs: two rows of one group, and one of another merchant
\* whose local date and UTC date differ
RunTxnRows ==
    {TxnRow(<<"t1">>, <<"m1">>, <<Day1Z, <<"1", "0">>, <<"APPROVED">>>>),
     TxnRow(<<"t2">>, <<"m2">>, <<Day1Late, <<"5">>, <<"DECLINED">>>>),
     TxnRow(<<"t3", SP>>, <<"m1">>, <<Day1Z, <<"2", "0">>, <<"DECLINED">>>>)}

SeqsUpTo(S, n) == UNION {[1..k -> S] : k \in 0..n}

\* pd.read_csv numbers the rows 0, 1, ... (the frame's index)
WithIndex(rows) ==
    [i \in 1..Len(rows) |->
        [index |-> i - 1,
         transaction_id |-> rows[i].transaction_id,
         merchant_id |-> rows[i].merchant_id,
         txn_ts_utc |-> rows[i].txn_ts_utc,
         amount |-> rows[i].amount,
         status |-> rows[i].status]]

File(mcols, mrows, tcols, trows) ==
    [merch_columns |-> mcols, merch_rows |-> mrows,
     txn_columns |-> tcols, txn_rows |-> trows]

\* the inputs of the pure stages
CleanFiles ==
    {File(FullMerchCols, mrows, FullTxnCols, trows) :
        mrows \in {<<M1>>, <<M2, M1Padded>>},
        trows \in SeqsUpTo(TxnRows, MaxTxns)}

MerchantFrames ==
    {[columns |-> FullMerchCols, rows |-> <<M1>>],
     [columns |-> MinimalMerchCols, rows |-> <<M2, M1Padded>>],
     [columns |-> FullMerchCols, rows |-> <<M1, M2>>],
     [columns |-> FullMerchCols, rows |-> <<M1, M1Padded>>]}

\* the inputs of whole runs; some lack a required column
RunFiles ==
    {File(m.columns, m.rows, FullTxnCols, trows) :
        m \in MerchantFrames, trows \in SeqsUpTo(RunTxnRows, MaxRunTxns)}
    \cup {File(mcols, <<M1>>, tcols, <<r>>) :
            mcols \in {PaddedMerchCols, NoNameMerchCols},
            tcols \in {NoStatusTxnCols, NoAmountIdTxnCols},
            r \in RunTxnRows}
    \cup {File(NoNameMerchCols, <<M1>>, FullTxnCols, <<r>>) : r \in RunTxnRows}

DimRow(id, name, created) ==
    [merchant_id |-> id, merchant_name |-> name, category |-> <<"Cafe">>,
     city |-> NULL, state |-> NULL, created_at_utc |-> created]

OldFact(d, m) ==
    [metric_date |-> d, merchant_id |-> m, txn_count |-> 7,
     approved_txn_count |-> 4, declined_txn_count |-> 3, gross_amount |-> 70,
     approved_amount |-> 40, approval_rate |-> 5714, avg_ticket |-> 1000,
     loaded_at_utc |-> 0]

DbEmpty ==
    [dim_merchants |-> {}, fact_daily_merchant_metrics |-> {},
     stg_merchants |-> Absent, stg_daily_metrics |-> Absent]

\* a sink loaded by earlier runs, with staging tables an interrupted run left
DbLoaded ==
    [dim_merchants |-> {DimRow(<<"m1">>, <<"Old", SP, "Name">>, 0),
                        DimRow(<<"m3">>, <<"Gone">>, 0)},
     fact_daily_merchant_metrics |-> {OldFact(1, <<"m1">>), OldFact(1, <<"m3">>)},
     stg_merchants |->
        [exists |-> TRUE,
         rows |-> SetToBag({[merchant_id |-> <<"m7">>, merchant_name |-> <<"Stale">>,
                             category |-> NULL, city |-> NULL, state |-> NULL]})],
     stg_daily_metrics |->
        [exists |-> TRUE,
         rows |-> SetToBag({[metric_date |-> 1, merchant_id |-> <<"m7">>,
                             txn_count |-> 1, approved_txn_count |-> 1,
                             declined_txn_count |-> 0, gross_amount |-> 9,
                             approved_amount |-> 9, approval_rate |-> 10000,
                             avg_ticket |-> 900]})]]

InitialDbs == {DbEmpty, DbLoaded}

NoFrame == [columns |-> <<>>, rows |-> <<>>]

NoRun == [outcome |-> "none", staged |-> "none"]

InitHist(d) ==
    [start |-> d, load_start |-> d, at |-> "none", facts_started |-> FALSE,
     prev |-> NoRun]

-----------------------------------------------------------------------------
(* Initial states *)

\* main is about to start against any of the sinks, with any of the inputs
Init ==
    /\ files \in RunFiles
    /\ db \in InitialDbs
    /\ merchants = NoFrame
    /\ txns = NoFrame
    /\ clean_txns = <<>>
    /\ stats = EmptyStats
    /\ daily = {}
    /\ tx = NoTx
    /\ pc = "extract"
    /\ err = NoErr
    /\ summary = FALSE
    /\ run = 1
    /\ hist = InitHist(db)

\* extract() has returned the two frames
InitClean ==
    /\ files \in CleanFiles
    /\ db = DbEmpty
    /\ merchants = [columns |-> files.merch_columns, rows |-> files.merch_rows]
    /\ txns = [columns |-> files.txn_columns, rows |-> WithIndex(files.txn_rows)]
    /\ clean_txns = <<>>
    /\ stats = EmptyStats
    /\ daily = {}
    /\ tx = NoTx
    /\ pc = "validate"
    /\ err = NoErr
    /\ summary = FALSE
    /\ run = 1
    /\ hist = InitHist(db)

-----------------------------------------------------------------------------
(* main: extract, validate, transform *)

Extract ==
    /\ pc = "extract"
    /\ merchants' = [columns |-> files.merch_columns, rows |-> files.merch_rows]
    /\ txns' = [columns |-> files.txn_columns, rows |-> WithIndex(files.txn_rows)]
    /\ pc' = "validate"
    /\ UNCHANGED <<files, clean_txns, stats, daily, db, tx, err, summary, run, hist>>

ValidateAndClean ==
    /\ pc = "validate"
    /\ LET v == validate_and_clean(merchants, txns)
       IN /\ merchants' = v.merchants
          /\ txns' = v.txns
          /\ stats' = v.stats
          /\ clean_txns' = v.clean_txns
          /\ err' = v.err
          /\ pc' = IF v.err = NoErr THEN "transform" ELSE "failed"
          /\ hist' = IF v.err = NoErr THEN hist ELSE [hist EXCEPT !.at = "validate"]
    /\ UNCHANGED <<files, daily, db, tx, summary, run>>

TransformDailyMetrics ==
    /\ pc = "transform"
    /\ daily' = transform_daily_metrics(clean_txns)
    /\ pc' = "load_merchants"
    /\ UNCHANGED <<files, merchants, txns, clean_txns, stats, db, tx, err, summary,
                   run, hist>>

-----------------------------------------------------------------------------
(* Transactions of the sink *)

\* the exception leaves the with-block: the open transaction commits what it
\* wrote so far (autocommit): a variant
RollbackKeepsWrites(d, t) ==
    IF t = NoTx THEN d
    ELSE [dim_merchants |-> t.dim_merchants,
          fact_daily_merchant_metrics |-> t.fact_daily_merchant_metrics,
          stg_merchants |-> t.stg_merchants,
          stg_daily_metrics |-> t.stg_daily_metrics]

\* one transaction spans both loads, and the exception discards all the run
\* wrote: a variant
RollbackWholeRun(d, t) == hist.start

\* the exception leaves the with-block of engine.begin(): what the open
\* transaction wrote is discarded
Rollback(d, t) == d

Begin(d) ==
    [open |-> TRUE,
     dim_merchants |-> d.dim_merchants,
     fact_daily_merchant_metrics |-> d.fact_daily_merchant_metrics,
     stg_merchants |-> d.stg_merchants,
     stg_daily_metrics |-> d.stg_daily_metrics]

Commit(t) ==
    [dim_merchants |-> t.dim_merchants,
     fact_daily_merchant_metrics |-> t.fact_daily_merchant_metrics,
     stg_merchants |-> t.stg_merchants,
     stg_daily_metrics |-> t.stg_daily_metrics]

\* DataFrame.to_sql(if_exists="append"): the rows are added to the table,
\* which is created when it does not exist
ToSql(stg, rows) == [exists |-> TRUE, rows |-> stg.rows (+) rows]

\* an exception propagates out of main
Raise(e) ==
    /\ pc' = "failed"
    /\ err' = e
    /\ db' = Rollback(db, tx)
    /\ tx' = NoTx
    /\ hist' = [hist EXCEPT !.at = pc]

-----------------------------------------------------------------------------
(* load_merchants *)

\* the first transaction opens and finds a staging table in place, which it
\* keeps: a variant
LM_KeepIfExists ==
    /\ pc = "load_merchants"
    /\ tx' = Begin(db)
    /\ pc' = "lm_create"
    /\ hist' = [hist EXCEPT !.load_start = db]
    /\ UNCHANGED <<files, merchants, txns, clean_txns, stats, daily, db, err,
                   summary, run>>

\* the first transaction opens: IF OBJECT_ID('dbo.stg_merchants', 'U') IS NOT
\* NULL DROP TABLE dbo.stg_merchants
LM_DropIfExists ==
    /\ pc = "load_merchants"
    /\ tx' = [Begin(db) EXCEPT !.stg_merchants = Absent]
    /\ pc' = "lm_create"
    /\ hist' = [hist EXCEPT !.load_start = db]
    /\ UNCHANGED <<files, merchants, txns, clean_txns, stats, daily, db, err,
                   summary, run>>

\* CREATE TABLE dbo.stg_merchants, an error when the table exists; the first
\* transaction commits
LM_Create ==
    /\ pc = "lm_create"
    /\ IF tx.stg_merchants.exists
       THEN Raise(SinkError("object_exists"))
       ELSE /\ db' = Commit([tx EXCEPT !.stg_merchants = EmptyTable])
            /\ tx' = NoTx
            /\ pc' = "lm_to_sql"
            /\ UNCHANGED <<err, hist>>
    /\ UNCHANGED <<files, merchants, txns, clean_txns, stats, daily, summary, run>>

\* merchants_to_load.to_sql("stg_merchants", if_exists="append"), committed
\* on its own
LM_ToSql ==
    /\ pc = "lm_to_sql"
    /\ db' = [db EXCEPT !.stg_merchants =
                 ToSql(@, SeqToBag(merchants_to_load(merchants)))]
    /\ pc' = "lm_merge"
    /\ UNCHANGED <<files, merchants, txns, clean_txns, stats, daily, tx, err,
                   summary, run, hist>>

\* the second transaction opens: MERGE dbo.dim_merchants, an error when two
\* staged rows have one key
LM_Merge ==
    /\ pc = "lm_merge"
    /\ IF DuplicateMerchKey(db.stg_merchants)
       THEN Raise(SinkError("duplicate_key"))
       ELSE /\ tx' = [Begin(db) EXCEPT !.dim_merchants =
                         MergeMerchants(@, db.stg_merchants, run)]
            /\ pc' = "lm_drop"
            /\ UNCHANGED <<db, err, hist>>
    /\ UNCHANGED <<files, merchants, txns, clean_txns, stats, daily, summary, run>>

\* DROP TABLE dbo.stg_merchants; the second transaction commits,
\* load_merchants returns and main stores the two counts
LM_Drop ==
    /\ pc = "lm_drop"
    /\ db' = Commit([tx EXCEPT !.stg_merchants = Absent])
    /\ tx' = NoTx
    /\ stats' = [stats EXCEPT !.merchants_loaded = Len(merchants_to_load(merchants)),
                              !.daily_rows = Cardinality(daily)]
    /\ pc' = "upsert_facts"
    /\ UNCHANGED <<files, merchants, txns, clean_txns, daily, err, summary, run,
                   hist>>

-----------------------------------------------------------------------------
(* upsert_facts *)

\* the first transaction opens: IF OBJECT_ID('dbo.stg_daily_metrics', 'U') IS
\* NOT NULL DROP TABLE dbo.stg_daily_metrics
UF_DropIfExists ==
    /\ pc = "upsert_facts"
    /\ tx' = [Begin(db) EXCEPT !.stg_daily_metrics = Absent]
    /\ pc' = "uf_create"
    /\ hist' = [hist EXCEPT !.load_start = db, !.facts_started = TRUE]
    /\ UNCHANGED <<files, merchants, txns, clean_txns, stats, daily, db, err,
                   summary, run>>

\* CREATE TABLE dbo.stg_daily_metrics, an error when the table exists; the
\* first transaction commits
UF_Create ==
    /\ pc = "uf_create"
    /\ IF tx.stg_daily_metrics.exists
       THEN Raise(SinkError("object_exists"))
       ELSE /\ db' = Commit([tx EXCEPT !.stg_daily_metrics = EmptyTable])
            /\ tx' = NoTx
            /\ pc' = "uf_to_sql"
            /\ UNCHANGED <<err, hist>>
    /\ UNCHANGED <<files, merchants, txns, clean_txns, stats, daily, summary, run>>

\* daily.to_sql("stg_daily_metrics", if_exists="append"), committed on its own
UF_ToSql ==
    /\ pc = "uf_to_sql"
    /\ db' = [db EXCEPT !.stg_daily_metrics = ToSql(@, SetToBag(daily))]
    /\ pc' = "uf_merge"
    /\ UNCHANGED <<files, merchants, txns, clean_txns, stats, daily, tx, err,
                   summary, run, hist>>

\* the second transaction opens: MERGE dbo.fact_daily_merchant_metrics, an
\* error when two staged rows have one key, or when a staged merchant_id is no
\* key of dim_merchants
UF_Merge ==
    /\ pc = "uf_merge"
    /\ IF DuplicateFactKey(db.stg_daily_metrics)
       THEN Raise(SinkError("duplicate_key"))
       ELSE IF ~ForeignKeyHolds(db.stg_daily_metrics, db.dim_merchants)
       THEN Raise(SinkError("foreign_key"))
       ELSE /\ tx' = [Begin(db) EXCEPT !.fact_daily_merchant_metrics =
                         MergeFacts(@, db.stg_daily_metrics, run)]
            /\ pc' = "uf_drop"
            /\ UNCHANGED <<db, err, hist>>
    /\ UNCHANGED <<files, merchants, txns, clean_txns, stats, daily, summary, run>>

\* DROP TABLE dbo.stg_daily_metrics; the second transaction commits,
\* upsert_facts returns and main stores the count
UF_Drop ==
    /\ pc = "uf_drop"
    /\ db' = Commit([tx EXCEPT !.stg_daily_metrics = Absent])
    /\ tx' = NoTx
    /\ stats' = [stats EXCEPT !.fact_rows_upserted = Cardinality(daily)]
    /\ pc' = "print_summary"
    /\ UNCHANGED <<files, merchants, txns, clean_txns, daily, err, summary, run,
                   hist>>

PrintSummary ==
    /\ pc = "print_summary"
    /\ summary' = TRUE
    /\ pc' = "done"
    /\ UNCHANGED <<files, merchants, txns, clean_txns, stats, daily, db, tx, err,
                   run, hist>>

-----------------------------------------------------------------------------
(* Failures of the sink, and the next invocation *)

\* the steps of each load; a failure before the step at pc is a failure after
\* the step that led there
LoadMerchantsPcs ==
    {"load_merchants", "lm_create", "lm_to_sql", "lm_merge", "lm_drop"}

UpsertFactsPcs == {"upsert_facts", "uf_create", "uf_to_sql", "uf_merge", "uf_drop"}

\* which load a failure before the step at p interrupts between the bulk
\* insert into its staging table and its MERGE
Staged(p) ==
    IF p = "lm_merge" THEN "merchants"
    ELSE IF p = "uf_merge" THEN "facts"
    ELSE "none"

\* the sink fails, or the process is interrupted, before the step at pc
Crash ==
    /\ pc \in LoadMerchantsPcs \cup UpsertFactsPcs
    /\ Raise(SinkError("injected"))
    /\ UNCHANGED <<files, merchants, txns, clean_txns, stats, daily, summary, run>>

\* main is invoked again, on the same files
Rerun ==
    /\ pc \in {"done", "failed"}
    /\ run < MaxRuns
    /\ run' = run + 1
    /\ pc' = "extract"
    /\ merchants' = NoFrame
    /\ txns' = NoFrame
    /\ clean_txns' = <<>>
    /\ stats' = EmptyStats
    /\ daily' = {}
    /\ err' = NoErr
    /\ summary' = FALSE
    /\ hist' = [start |-> db, load_start |-> db, at |-> "none",
                facts_started |-> FALSE,
                prev |-> [outcome |-> pc, staged |-> Staged(hist.at)]]
    /\ UNCHANGED <<files, db, tx>>

-----------------------------------------------------------------------------
(* Two invocations of main against one sink.  Under SpecConcurrent every     *)
(* variable of an invocation (files, merchants, txns, clean_txns, stats,     *)
(* daily, tx, pc, err, summary, run) is a function of the run; db is the one *)
(* sink.  Both invocations use the staging table names of the source.        *)

Runs == {1, 2}

\* the inputs of concurrent runs, one transaction each: on each of them a run
\* alone succeeds; two runs can present one merchant, or one (date, merchant)
\* pair, with different values
ConcurrentFiles ==
    {File(FullMerchCols, mrows, FullTxnCols, <<r>>) :
        mrows \in {<<M1>>, <<M2, M1Padded>>}, r \in RunTxnRows}

\* no open transaction, no lock held
NoTxBy == [copy |-> NoTx, wrote |-> {}, keys |-> {}]

\* engine.begin(): a transaction that has written nothing yet
BeginBy(d) == [copy |-> Begin(d), wrote |-> {}, keys |-> {}]

\* a DROP TABLE or CREATE TABLE of the transaction t: the staging table stays
\* locked by t until t commits or rolls back
Write(t, d, table, value) ==
    [copy |-> [(IF t.copy = NoTx THEN Begin(d) ELSE t.copy) EXCEPT ![table] = value],
     wrote |-> t.wrote \cup {table},
     keys |-> t.keys]

\* a MERGE of the transaction t: the rows of the target it updated or
\* inserted, those of the keys ks, stay locked by t until t commits or rolls
\* back
WriteRows(t, d, table, value, ks) ==
    [copy |-> [(IF t.copy = NoTx THEN Begin(d) ELSE t.copy) EXCEPT ![table] = value],
     wrote |-> t.wrote,
     keys |-> t.keys \cup {<<table, k>> : k \in ks}]

Locked(q, table) == table \in tx[q].wrote

\* a statement of p on the staging table waits while another run's
\* transaction holds it
Blocked(p, table) == \E q \in Runs \ {p} : Locked(q, table)

\* a statement of p that reads or writes rows of these keys of the target
\* waits while another run's transaction holds one of them
BlockedRows(p, table, ks) ==
    \E q \in Runs \ {p} : \E k \in ks : <<table, k>> \in tx[q].keys

\* READ COMMITTED: p sees its own writes, and of the others what is committed
ReadBy(p, table) == IF Locked(p, table) THEN tx[p].copy[table] ELSE db[table]

\* the commit publishes the staging tables and the target rows the
\* transaction wrote
CommitBy(d, t) ==
    LET stg(table) == IF table \in t.wrote THEN t.copy[table] ELSE d[table]
    IN Commit([open |-> TRUE,
               dim_merchants |->
                  {r \in d.dim_merchants :
                      <<"dim_merchants", MerchKey(r)>> \notin t.keys}
                  \cup {r \in t.copy.dim_merchants :
                          <<"dim_merchants", MerchKey(r)>> \in t.keys},
               fact_daily_merchant_metrics |->
                  {r \in d.fact_daily_merchant_metrics :
                      <<"fact_daily_merchant_metrics", FactKey(r)>> \notin t.keys}
                  \cup {r \in t.copy.fact_daily_merchant_metrics :
                          <<"fact_daily_merchant_metrics", FactKey(r)>> \in t.keys},
               stg_merchants |-> stg("stg_merchants"),
               stg_daily_metrics |-> stg("stg_daily_metrics")])

InsideLoadMerchants == LoadMerchantsPcs \ {"load_merchants"}

InsideUpsertFacts == UpsertFactsPcs \ {"upsert_facts"}

\* an exception propagates out of the main of run p
RaiseBy(p, e) ==
    /\ pc' = [pc EXCEPT ![p] = "failed"]
    /\ err' = [err EXCEPT ![p] = e]
    /\ db' = Rollback(db, tx[p].copy)
    /\ tx' = [tx EXCEPT ![p] = NoTxBy]
    /\ hist' = [hist EXCEPT !.at[p] = pc[p]]

\* both runs have read, cleaned and aggregated their files and are about to
\* load
InitConcurrent ==
    /\ files \in [Runs -> ConcurrentFiles]
    /\ db \in InitialDbs
    /\ LET v(p) ==
              validate_and_clean(
                  [columns |-> files[p].merch_columns, rows |-> files[p].merch_rows],
                  [columns |-> files[p].txn_columns,
                   rows |-> WithIndex(files[p].txn_rows)])
       IN /\ merchants = [p \in Runs |-> v(p).merchants]
          /\ txns = [p \in Runs |-> v(p).txns]
          /\ clean_txns = [p \in Runs |-> v(p).clean_txns]
          /\ stats = [p \in Runs |-> v(p).stats]
          /\ daily = [p \in Runs |-> transform_daily_metrics(v(p).clean_txns)]
    /\ tx = [p \in Runs |-> NoTxBy]
    /\ pc = [p \in Runs |-> "load_merchants"]
    /\ err = [p \in Runs |-> NoErr]
    /\ summary = [p \in Runs |-> FALSE]
    /\ run = [p \in Runs |-> p]
    /\ hist = [start |-> db, at |-> [p \in Runs |-> "none"],
               overlap_m |-> FALSE, overlap_f |-> FALSE,
               last_m |-> 0, last_f |-> 0]

\* run p opens the first transaction of load_merchants: IF OBJECT_ID(...) IS
\* NOT NULL DROP TABLE dbo.stg_merchants
LM_DropIfExistsBy(p) ==
    /\ pc[p] = "load_merchants"
    /\ ~Blocked(p, "stg_merchants")
    /\ tx' = [tx EXCEPT ![p] =
                 IF db.stg_merchants.exists
                 THEN Write(BeginBy(db), db, "stg_merchants", Absent)
                 ELSE BeginBy(db)]
    /\ pc' = [pc EXCEPT ![p] = "lm_create"]
    /\ hist' = [hist EXCEPT !.overlap_m =
                   @ \/ \E q \in Runs \ {p} : pc[q] \in InsideLoadMerchants]
    /\ UNCHANGED <<files, merchants, txns, clean_txns, stats, daily, db, err,
                   summary, run>>

\* CREATE TABLE dbo.stg_merchants, an error when a table of the name exists;
\* the first transaction commits
LM_CreateBy(p) ==
    /\ pc[p] = "lm_create"
    /\ ~Blocked(p, "stg_merchants")
    /\ IF ReadBy(p, "stg_merchants").exists
       THEN RaiseBy(p, SinkError("object_exists"))
       ELSE /\ db' = CommitBy(db, Write(tx[p], db, "stg_merchants", EmptyTable))
            /\ tx' = [tx EXCEPT ![p] = NoTxBy]
            /\ pc' = [pc EXCEPT ![p] = "lm_to_sql"]
            /\ UNCHANGED <<err, hist>>
    /\ UNCHANGED <<files, merchants, txns, clean_txns, stats, daily, summary, run>>

\* merchants_to_load.to_sql("stg_merchants", if_exists="append"), committed
\* on its own: the rows join whatever table of the name is in the sink
LM_ToSqlBy(p) ==
    /\ pc[p] = "lm_to_sql"
    /\ ~Blocked(p, "stg_merchants")
    /\ db' = [db EXCEPT !.stg_merchants =
                 ToSql(@, SeqToBag(merchants_to_load(merchants[p])))]
    /\ pc' = [pc EXCEPT ![p] = "lm_merge"]
    /\ UNCHANGED <<files, merchants, txns, clean_txns, stats, daily, tx, err,
                   summary, run, hist>>

\* the second transaction opens: MERGE dbo.dim_merchants USING
\* dbo.stg_merchants, an error when the staging table is gone or two staged
\* rows have one key
LM_MergeBy(p) ==
    /\ pc[p] = "lm_merge"
    /\ ~Blocked(p, "stg_merchants")
    /\ ~BlockedRows(p, "dim_merchants",
                    {MerchKey(r) : r \in StagedRows(db.stg_merchants)})
    /\ IF ~db.stg_merchants.exists
       THEN RaiseBy(p, SinkError("invalid_object"))
       ELSE IF DuplicateMerchKey(db.stg_merchants)
       THEN RaiseBy(p, SinkError("duplicate_key"))
       ELSE /\ tx' = [tx EXCEPT ![p] =
                         WriteRows(BeginBy(db), db, "dim_merchants",
                                   MergeMerchants(db.dim_merchants,
                                                  db.stg_merchants, run[p]),
                                   {MerchKey(r) :
                                       r \in StagedRows(db.stg_merchants)})]
            /\ pc' = [pc EXCEPT ![p] = "lm_drop"]
            /\ UNCHANGED <<db, err, hist>>
    /\ UNCHANGED <<files, merchants, txns, clean_txns, stats, daily, summary, run>>

\* DROP TABLE dbo.stg_merchants, an error when the table is gone; the second
\* transaction commits and load_merchants returns
LM_DropBy(p) ==
    /\ pc[p] = "lm_drop"
    /\ ~Blocked(p, "stg_merchants")
    /\ IF ~db.stg_merchants.exists
       THEN /\ RaiseBy(p, SinkError("invalid_object"))
            /\ UNCHANGED stats
       ELSE /\ db' = CommitBy(db, Write(tx[p], db, "stg_merchants", Absent))
            /\ tx' = [tx EXCEPT ![p] = NoTxBy]
            /\ stats' = [stats EXCEPT
                            ![p].merchants_loaded =
                                Len(merchants_to_load(merchants[p])),
                            ![p].daily_rows = Cardinality(daily[p])]
            /\ pc' = [pc EXCEPT ![p] = "upsert_facts"]
            /\ hist' = [hist EXCEPT !.last_m = p]
            /\ UNCHANGED err
    /\ UNCHANGED <<files, merchants, txns, clean_txns, daily, summary, run>>

\* run p opens the first transaction of upsert_facts: IF OBJECT_ID(...) IS NOT
\* NULL DROP TABLE dbo.stg_daily_metrics
UF_DropIfExistsBy(p) ==
    /\ pc[p] = "upsert_facts"
    /\ ~Blocked(p, "stg_daily_metrics")
    /\ tx' = [tx EXCEPT ![p] =
                 IF db.stg_daily_metrics.exists
                 THEN Write(BeginBy(db), db, "stg_daily_metrics", Absent)
                 ELSE BeginBy(db)]
    /\ pc' = [pc EXCEPT ![p] = "uf_create"]
    /\ hist' = [hist EXCEPT !.overlap_f =
                   @ \/ \E q \in Runs \ {p} : pc[q] \in InsideUpsertFacts]
    /\ UNCHANGED <<files, merchants, txns, clean_txns, stats, daily, db, err,
                   summary, run>>

\* CREATE TABLE dbo.stg_daily_metrics, an error when a table of the name
\* exists; the first transaction commits
UF_CreateBy(p) ==
    /\ pc[p] = "uf_create"
    /\ ~Blocked(p, "stg_daily_metrics")
    /\ IF ReadBy(p, "stg_daily_metrics").exists
       THEN RaiseBy(p, SinkError("object_exists"))
       ELSE /\ db' = CommitBy(db, Write(tx[p], db, "stg_daily_metrics", EmptyTable))
            /\ tx' = [tx EXCEPT ![p] = NoTxBy]
            /\ pc' = [pc EXCEPT ![p] = "uf_to_sql"]
            /\ UNCHANGED <<err, hist>>
    /\ UNCHANGED <<files, merchants, txns, clean_txns, stats, daily, summary, run>>

\* daily.to_sql("stg_daily_metrics", if_exists="append"), committed on its own
UF_ToSqlBy(p) ==
    /\ pc[p] = "uf_to_sql"
    /\ ~Blocked(p, "stg_daily_metrics")
    /\ db' = [db EXCEPT !.stg_daily_metrics = ToSql(@, SetToBag(daily[p]))]
    /\ pc' = [pc EXCEPT ![p] = "uf_merge"]
    /\ UNCHANGED <<files, merchants, txns, clean_txns, stats, daily, tx, err,
                   summary, run, hist>>

\* the second transaction opens: MERGE dbo.fact_daily_merchant_metrics USING
\* dbo.stg_daily_metrics, an error when the staging table is gone, two staged
\* rows have one key, or a staged merchant_id is no key of dim_merchants
UF_MergeBy(p) ==
    /\ pc[p] = "uf_merge"
    /\ ~Blocked(p, "stg_daily_metrics")
    /\ ~BlockedRows(p, "fact_daily_merchant_metrics",
                    {FactKey(r) : r \in StagedRows(db.stg_daily_metrics)})
    /\ ~BlockedRows(p, "dim_merchants",
                    {r.merchant_id : r \in StagedRows(db.stg_daily_metrics)})
    /\ IF ~db.stg_daily_metrics.exists
       THEN RaiseBy(p, SinkError("invalid_object"))
       ELSE IF DuplicateFactKey(db.stg_daily_metrics)
       THEN RaiseBy(p, SinkError("duplicate_key"))
       ELSE IF ~ForeignKeyHolds(db.stg_daily_metrics, db.dim_merchants)
       THEN RaiseBy(p, SinkError("foreign_key"))
       ELSE /\ tx' = [tx EXCEPT ![p] =
                         WriteRows(BeginBy(db), db, "fact_daily_merchant_metrics",
                                   MergeFacts(db.fact_daily_merchant_metrics,
                                              db.stg_daily_metrics, run[p]),
                                   {FactKey(r) :
                                       r \in StagedRows(db.stg_daily_metrics)})]
            /\ pc' = [pc EXCEPT ![p] = "uf_drop"]
            /\ UNCHANGED <<db, err, hist>>
    /\ UNCHANGED <<files, merchants, txns, clean_txns, stats, daily, summary, run>>

\* DROP TABLE dbo.stg_daily_metrics, an error when the table is gone; the
\* second transaction commits and upsert_facts returns
UF_DropBy(p) ==
    /\ pc[p] = "uf_drop"
    /\ ~Blocked(p, "stg_daily_metrics")
    /\ IF ~db.stg_daily_metrics.exists
       THEN /\ RaiseBy(p, SinkError("invalid_object"))
            /\ UNCHANGED stats
       ELSE /\ db' = CommitBy(db, Write(tx[p], db, "stg_daily_metrics", Absent))
            /\ tx' = [tx EXCEPT ![p] = NoTxBy]
            /\ stats' = [stats EXCEPT
                            ![p].fact_rows_upserted = Cardinality(daily[p])]
            /\ pc' = [pc EXCEPT ![p] = "print_summary"]
            /\ hist' = [hist EXCEPT !.last_f = p]
            /\ UNCHANGED err
    /\ UNCHANGED <<files, merchants, txns, clean_txns, daily, summary, run>>

\* run p prints its summary
PrintSummaryBy(p) ==
    /\ pc[p] = "print_summary"
    /\ summary' = [summary EXCEPT ![p] = TRUE]
    /\ pc' = [pc EXCEPT ![p] = "done"]
    /\ UNCHANGED <<files, merchants, txns, clean_txns, stats, daily, db, tx, err,
                   run, hist>>

-----------------------------------------------------------------------------
(* Specifications *)

Next ==
    \/ Extract
    \/ ValidateAndClean
    \/ TransformDailyMetrics
    \/ LM_DropIfExists
    \/ LM_Create
    \/ LM_ToSql
    \/ LM_Merge
    \/ LM_Drop
    \/ UF_DropIfExists
    \/ UF_Create
    \/ UF_ToSql
    \/ UF_Merge
    \/ UF_Drop
    \/ PrintSummary
    \/ Crash
    \/ Rerun

Spec == Init /\ [][Next]_vars

NextClean == ValidateAndClean \/ TransformDailyMetrics

SpecClean == InitClean /\ [][NextClean]_vars

NextConcurrent ==
    \E p \in Runs :
        \/ LM_DropIfExistsBy(p)
        \/ LM_CreateBy(p)
        \/ LM_ToSqlBy(p)
        \/ LM_MergeBy(p)
        \/ LM_DropBy(p)
        \/ UF_DropIfExistsBy(p)
        \/ UF_CreateBy(p)
        \/ UF_ToSqlBy(p)
        \/ UF_MergeBy(p)
        \/ UF_DropBy(p)
        \/ PrintSummaryBy(p)

SpecConcurrent == InitConcurrent /\ [][NextConcurrent]_vars

-----------------------------------------------------------------------------
(* Properties of validate_and_clean and transform_daily_metrics *)

\* the raw transaction rows as read, and the identifier of row i once trimmed
RawTxns == WithIndex(files.txn_rows)

TrimmedId(i) == StripCell(files.txn_rows[i].transaction_id)

FirstOccurrence(i) == \A j \in 1..(i - 1) : TrimmedId(j) # TrimmedId(i)

\* the input without the rows whose identifier occurred before
FirstOccurrences ==
    SelectIdx(RawTxns, [i \in 1..Len(RawTxns) |-> FirstOccurrence(i)], 1)

RawMerchants == [columns |-> files.merch_columns, rows |-> files.merch_rows]

Validated == pc \in {"transform", "load_merchants"}

\* C4: only the first row, in file order, of each trimmed transaction
\* identifier can reach the cleaned output and the daily metrics: every kept
\* row is a first occurrence, the output and the metrics are those of the
\* input with all later occurrences deleted, and txns_after_dedupe is the
\* number of distinct trimmed identifiers.
C4_DedupeKeepsFirst ==
    LET alone == validate_and_clean(
                     RawMerchants,
                     [columns |-> files.txn_columns, rows |-> FirstOccurrences])
    IN /\ Validated =>
            /\ \A k \in 1..Len(clean_txns) :
                   FirstOccurrence(clean_txns[k].index + 1)
            /\ clean_txns = alone.clean_txns
            /\ stats.txns_valid = alone.stats.txns_valid
            /\ stats.txns_after_dedupe =
                   Cardinality({TrimmedId(i) : i \in 1..Len(files.txn_rows)})
       /\ pc = "load_merchants" =>
            daily = transform_daily_metrics(alone.clean_txns)

\* row j, taken alone, passes validation
ValidAlone(j) ==
    validate_and_clean(
        RawMerchants,
        [columns |-> files.txn_columns,
         rows |-> <<RawTxns[j]>>]).stats.txns_valid = 1

\* C4 witness: two rows whose identifiers differ as written and agree once
\* trimmed, with different amounts; the first is rejected, the second would
\* be valid alone, and nothing reaches the metrics.
C4_Witness ==
    /\ pc = "load_merchants"
    /\ Len(files.txn_rows) = 2
    /\ files.txn_rows[1].transaction_id # files.txn_rows[2].transaction_id
    /\ TrimmedId(1) = TrimmedId(2)
    /\ files.txn_rows[1].amount # files.txn_rows[2].amount
    /\ ~ValidAlone(1)
    /\ ValidAlone(2)
    /\ stats.txns_after_dedupe = 1
    /\ stats.txns_valid = 0
    /\ daily = {}

\* the validity conjunction, read off the raw cells of row i
StatusOk(i) ==
    StripCell(files.txn_rows[i].status) \in {<<"APPROVED">>, <<"DECLINED">>}

AmountOk(i) ==
    LET a == ToNumeric(StripCell(files.txn_rows[i].amount))
    IN a.notna /\ a.num > 0

TimestampOk(i) == ToDatetime(StripCell(files.txn_rows[i].txn_ts_utc)).notna

MerchantOk(i) ==
    \E k \in 1..Len(files.merch_rows) :
        StripCell(files.merch_rows[k].merchant_id)
            = StripCell(files.txn_rows[i].merchant_id)

Valid(i) == StatusOk(i) /\ AmountOk(i) /\ TimestampOk(i) /\ MerchantOk(i)

\* C5: a post-dedupe transaction is in the cleaned output exactly when its
\* status is APPROVED or DECLINED, its amount parses and is > 0, its timestamp
\* parses and its merchant identifier is one of the merchants input; the kept
\* rows carry their trimmed cells unchanged and keep the file order;
\* txns_valid is the size of the output and txns_rejected = txns_after_dedupe
\* - txns_valid.
C5_ValidityPartition ==
    Validated =>
        /\ {clean_txns[k].index + 1 : k \in 1..Len(clean_txns)}
               = {i \in 1..Len(files.txn_rows) : FirstOccurrence(i) /\ Valid(i)}
        /\ \A k \in 1..Len(clean_txns) :
               LET r == clean_txns[k]
                   raw == files.txn_rows[r.index + 1]
               IN /\ r.transaction_id = StripCell(raw.transaction_id)
                  /\ r.merchant_id = StripCell(raw.merchant_id)
                  /\ r.txn_ts_utc = StripCell(raw.txn_ts_utc)
                  /\ r.amount = StripCell(raw.amount)
                  /\ r.status = StripCell(raw.status)
        /\ \A k \in 1..(Len(clean_txns) - 1) :
               clean_txns[k].index < clean_txns[k + 1].index
        /\ stats.txns_valid = Len(clean_txns)
        /\ stats.txns_rejected = stats.txns_after_dedupe - stats.txns_valid
        /\ stats.txns_total = Len(files.txn_rows)

\* C5 witness: one transaction with amount -5 and one, otherwise valid, of a
\* merchant the merchants input does not hold; both are dropped and counted.
C5_Witness ==
    /\ pc = "transform"
    /\ Len(files.txn_rows) = 2
    /\ \E i, j \in 1..2 :
          /\ ToNumeric(StripCell(files.txn_rows[i].amount)).num = 0 - 5
          /\ StatusOk(i) /\ TimestampOk(i) /\ MerchantOk(i)
          /\ StatusOk(j) /\ AmountOk(j) /\ TimestampOk(j) /\ ~MerchantOk(j)
    /\ stats.txns_after_dedupe = 2
    /\ stats.txns_rejected = 2
    /\ clean_txns = <<>>

\* C6: in every row of the daily metrics computed from the cleaned
\* transactions, approved_txn_count + declined_txn_count = txn_count, so that
\* 0 <= approved_txn_count <= txn_count and the approval rate is in [0, 1].
C6_CountsAddUp ==
    pc = "load_merchants" =>
        \A d \in daily :
            /\ d.approved_txn_count + d.declined_txn_count = d.txn_count
            /\ 0 <= d.approved_txn_count
            /\ d.approved_txn_count <= d.txn_count
            /\ 0 <= d.approval_rate
            /\ d.approval_rate <= RateScale

\* C6 witness: a group of one approved and one declined transaction, while a
\* transaction of another status was in the input.
C6_Witness ==
    /\ pc = "load_merchants"
    /\ \E d \in daily :
          /\ d.txn_count = 2
          /\ d.approved_txn_count = 1
          /\ d.declined_txn_count = 1
          /\ 2 * d.approval_rate = RateScale

-----------------------------------------------------------------------------
(* Properties of the loads and of main *)

\* the incoming rows of each load, as bulk-inserted
IncomingMerchants == SeqToBag(merchants_to_load(merchants))

IncomingFacts == SetToBag(daily)

Table(rows) == [exists |-> TRUE, rows |-> rows]

\* after is before with every row of rows upserted by merchant_id at time now
IsMerchantUpsert(before, after, rows, now) ==
    /\ \A r \in rows :
          \E a \in after :
             /\ a.merchant_id = r.merchant_id
             /\ a.merchant_name = r.merchant_name
             /\ a.category = r.category
             /\ a.city = r.city
             /\ a.state = r.state
             /\ \/ \E b \in before : /\ b.merchant_id = r.merchant_id
                                     /\ a.created_at_utc = b.created_at_utc
                \/ /\ \A b \in before : b.merchant_id # r.merchant_id
                   /\ a.created_at_utc = now
    /\ \A b \in before :
          (\A r \in rows : r.merchant_id # b.merchant_id) => b \in after
    /\ Cardinality(after)
          = Cardinality({b.merchant_id : b \in before}
                        \cup {r.merchant_id : r \in rows})

\* after is before with every row of rows upserted by (metric_date,
\* merchant_id) at time now
IsFactUpsert(before, after, rows, now) ==
    /\ \A r \in rows :
          \E a \in after :
             /\ a = FactRow(r, a.loaded_at_utc)
             /\ \/ \E b \in before : /\ FactKey(b) = FactKey(r)
                                     /\ a.loaded_at_utc = b.loaded_at_utc
                \/ /\ \A b \in before : FactKey(b) # FactKey(r)
                   /\ a.loaded_at_utc = now
    /\ \A b \in before :
          (\A r \in rows : FactKey(r) # FactKey(b)) => b \in after
    /\ Cardinality(after)
          = Cardinality({FactKey(b) : b \in before} \cup {FactKey(r) : r \in rows})

FailedIn(pcs) == pc = "failed" /\ hist.at \in pcs

\* C1 as claimed: a load is all-or-nothing in the sink, so that after a
\* failure following any of its steps the staging tables and the target
\* tables are exactly as they were before the load started.
C1_LoadAllOrNothing ==
    FailedIn((LoadMerchantsPcs \cup UpsertFactsPcs)
                 \ {"load_merchants", "upsert_facts"})
        => db = hist.load_start

\* C1 amended: each load commits in three units (drop-if-exists and create;
\* the bulk insert; MERGE and drop).  After a failure following any step the
\* target tables and the other load's staging table are exactly as before the
\* load; the load's staging table is as before when the failure precedes the
\* first commit, created and empty when it follows the create, and holds
\* exactly the incoming rows when it follows the bulk insert or the MERGE.  A
\* load that returns has merged the incoming rows and dropped its staging
\* table.
C1_TargetAllOrNothing ==
    /\ FailedIn({"lm_create"}) => db = hist.load_start
    /\ FailedIn({"lm_to_sql"}) =>
          db = [hist.load_start EXCEPT !.stg_merchants = EmptyTable]
    /\ FailedIn({"lm_merge", "lm_drop"}) =>
          db = [hist.load_start EXCEPT !.stg_merchants = Table(IncomingMerchants)]
    /\ FailedIn({"uf_create"}) => db = hist.load_start
    /\ FailedIn({"uf_to_sql"}) =>
          db = [hist.load_start EXCEPT !.stg_daily_metrics = EmptyTable]
    /\ FailedIn({"uf_merge", "uf_drop"}) =>
          db = [hist.load_start EXCEPT !.stg_daily_metrics = Table(IncomingFacts)]
    /\ pc = "upsert_facts" =>
          /\ db.stg_merchants = Absent
          /\ IsMerchantUpsert(hist.load_start.dim_merchants, db.dim_merchants,
                              BagToSet(IncomingMerchants), run)
          /\ db.fact_daily_merchant_metrics
                = hist.load_start.fact_daily_merchant_metrics
    /\ pc = "print_summary" =>
          /\ db.stg_daily_metrics = Absent
          /\ IsFactUpsert(hist.load_start.fact_daily_merchant_metrics,
                          db.fact_daily_merchant_metrics, daily, run)
          /\ db.dim_merchants = hist.load_start.dim_merchants

\* C1 witness: the sink failed after the MERGE of load_merchants and before
\* the drop; the MERGE, which would change dim_merchants, is undone, and the
\* staging table, absent before the load, holds the incoming rows.
C1_Witness ==
    /\ FailedIn({"lm_drop"})
    /\ err = SinkError("injected")
    /\ hist.load_start.stg_merchants = Absent
    /\ db.stg_merchants = Table(IncomingMerchants)
    /\ IncomingMerchants # EmptyBag
    /\ db.dim_merchants = hist.load_start.dim_merchants
    /\ MergeMerchants(db.dim_merchants, db.stg_merchants, run) # db.dim_merchants

\* C2: when a run of main succeeds and main is run again on the same
\* files, the second run, if it succeeds, leaves dim_merchants and
\* fact_daily_merchant_metrics, rows and all columns, exactly as the first run
\* left them, and leaves no staging table.
C2_Idempotent ==
    (pc = "done" /\ hist.prev.outcome = "done") =>
        /\ db.dim_merchants = hist.start.dim_merchants
        /\ db.fact_daily_merchant_metrics = hist.start.fact_daily_merchant_metrics
        /\ db.stg_merchants = Absent
        /\ db.stg_daily_metrics = Absent

\* C2 witness: a second successful run over a sink in which the first run
\* inserted a merchant and a fact row and updated another fact row.
C2_Witness ==
    /\ pc = "done"
    /\ hist.prev.outcome = "done"
    /\ summary
    /\ \E d \in db.dim_merchants : d.created_at_utc = run - 1
    /\ \E f \in db.fact_daily_merchant_metrics :
          /\ f.loaded_at_utc = run - 1
          /\ \E d \in daily : FactKey(d) = FactKey(f)
    /\ \E f \in db.fact_daily_merchant_metrics :
          /\ f.loaded_at_utc = 0
          /\ \E d \in daily : FactKey(d) = FactKey(f)


\* two rows of the merchants input have one merchant_id once trimmed
DuplicateMerchantInput ==
    \E i, j \in 1..Len(files.merch_rows) :
        /\ i # j
        /\ StripCell(files.merch_rows[i].merchant_id)
              = StripCell(files.merch_rows[j].merchant_id)

\* C3: a load interrupted after its rows were staged and before its MERGE
\* leaves the target tables as they were; when main is then run again on the
\* same files, with the staging table left in place, neither load fails on
\* the leftover (no "object exists" error, and a duplicate key only when the
\* merchants input itself holds one), each MERGE reads exactly the rows of the
\* new attempt, and each load that returns leaves its target as the upsert of
\* the incoming rows into the target as it was, which is what one
\* uninterrupted load does.
C3_SafeRerun ==
    /\ (pc = "failed" /\ Staged(hist.at) # "none") =>
          /\ db.dim_merchants = hist.load_start.dim_merchants
          /\ db.fact_daily_merchant_metrics
                = hist.load_start.fact_daily_merchant_metrics
    /\ hist.prev.staged # "none" =>
          /\ err.kind = "SinkError" =>
                /\ err.reason # "object_exists"
                /\ err.reason = "duplicate_key" =>
                      hist.at = "lm_merge" /\ DuplicateMerchantInput
          /\ pc = "lm_merge" => db.stg_merchants = Table(IncomingMerchants)
          /\ pc = "uf_merge" => db.stg_daily_metrics = Table(IncomingFacts)
          /\ pc \in UpsertFactsPcs \cup {"print_summary", "done"} =>
                IsMerchantUpsert(hist.start.dim_merchants, db.dim_merchants,
                                 BagToSet(IncomingMerchants), run)
          /\ pc \in {"print_summary", "done"} =>
                IsFactUpsert(hist.start.fact_daily_merchant_metrics,
                             db.fact_daily_merchant_metrics, daily, run)

\* C3 witness: the run before was interrupted between the bulk insert and the
\* MERGE of load_merchants; this run found the staged rows in place, loaded
\* both entity types and finished.
C3_Witness ==
    /\ pc = "done"
    /\ hist.prev.staged = "merchants"
    /\ hist.start.stg_merchants = Table(IncomingMerchants)
    /\ IncomingMerchants # EmptyBag
    /\ db.stg_merchants = Absent
    /\ db.dim_merchants # hist.start.dim_merchants

\* C7: when upsert_facts merges, every merchant_id among the daily rows is a
\* key of dim_merchants, so the MERGE never fails on the foreign key; after a
\* successful run every row of fact_daily_merchant_metrics references a row of
\* dim_merchants.
C7_ReferentialIntegrity ==
    /\ pc = "uf_merge" =>
          /\ \A r \in daily :
                \E d \in db.dim_merchants : d.merchant_id = r.merchant_id
          /\ \A r \in BagToSet(db.stg_daily_metrics.rows) :
                \E d \in db.dim_merchants : d.merchant_id = r.merchant_id
    /\ err.kind = "SinkError" => err.reason # "foreign_key"
    /\ pc = "done" =>
          \A f \in db.fact_daily_merchant_metrics :
              \E d \in db.dim_merchants : d.merchant_id = f.merchant_id

\* C7 witness: upsert_facts is about to merge a row of a merchant that
\* load_merchants inserted in this run, while a transaction of a merchant
\* missing from the merchants input was left out of the daily rows.
C7_Witness ==
    /\ pc = "uf_merge"
    /\ \E r \in daily :
          /\ \A d \in hist.start.dim_merchants : d.merchant_id # r.merchant_id
          /\ \E d \in db.dim_merchants : d.merchant_id = r.merchant_id
    /\ \E i \in 1..Len(files.txn_rows) :
          StatusOk(i) /\ AmountOk(i) /\ TimestampOk(i) /\ ~MerchantOk(i)

\* the required columns each file lacks, its header trimmed
MissingMerchCols ==
    {<<"merchant_id">>, <<"merchant_name">>}
        \ {Strip(files.merch_columns[i]) : i \in 1..Len(files.merch_columns)}

MissingTxnCols ==
    {<<"transaction_id">>, <<"merchant_id">>, <<"txn_ts_utc">>, <<"amount">>,
     <<"status">>}
        \ {Strip(files.txn_columns[i]) : i \in 1..Len(files.txn_columns)}

\* C8: when a file lacks a required column the run never gets past
\* validation: it fails with a ValueError naming the file and exactly its
\* missing columns (those of merchants.csv when both files lack some), no
\* transaction is deduplicated, validated or aggregated, no load step runs,
\* the sink is as it was when the run started and no summary is printed.
C8_MissingColumnFailsFirst ==
    (MissingMerchCols # {} \/ MissingTxnCols # {}) =>
        /\ pc \in {"extract", "validate", "failed"}
        /\ pc = "failed" =>
              err = IF MissingMerchCols # {}
                    THEN ValueError("merchants.csv", MissingMerchCols)
                    ELSE ValueError("transactions.csv", MissingTxnCols)
        /\ db = hist.start
        /\ tx = NoTx
        /\ ~summary
        /\ clean_txns = <<>>
        /\ daily = {}
        /\ stats.txns_after_dedupe = 0
        /\ stats.txns_valid = 0
        /\ stats.merchants_loaded = 0
        /\ stats.fact_rows_upserted = 0

\* C8 witness: transactions.csv lacks "status", merchants.csv has its
\* columns (one header padded), and the run has failed over a loaded sink.
C8_Witness ==
    /\ pc = "failed"
    /\ MissingMerchCols = {}
    /\ err = ValueError("transactions.csv", {<<"status">>})
    /\ files.merch_columns = PaddedMerchCols
    /\ db = DbLoaded

\* C9: when upsert_facts fails at any step, the merchant upsert of this run
\* is committed (dim_merchants is the upsert of the merchants input, its
\* staging table dropped), fact_daily_merchant_metrics is as it was when the
\* run started, and no summary is printed; when load_merchants fails,
\* upsert_facts was not started and fact_daily_merchant_metrics is as it was
\* when the run started.
C9_IndependentUnits ==
    /\ FailedIn(UpsertFactsPcs) =>
          /\ IsMerchantUpsert(hist.start.dim_merchants, db.dim_merchants,
                              BagToSet(IncomingMerchants), run)
          /\ db.stg_merchants = Absent
          /\ db.fact_daily_merchant_metrics
                = hist.start.fact_daily_merchant_metrics
          /\ ~summary
          /\ stats.fact_rows_upserted = 0
    /\ FailedIn(LoadMerchantsPcs) =>
          /\ ~hist.facts_started
          /\ db.fact_daily_merchant_metrics
                = hist.start.fact_daily_merchant_metrics
          /\ db.stg_daily_metrics = hist.start.stg_daily_metrics
          /\ db.dim_merchants = hist.start.dim_merchants
          /\ ~summary
    /\ summary => pc = "done"

\* C9 witness: upsert_facts failed after its MERGE, which would change the
\* fact table, and before its drop; the merchants this run upserted are in
\* dim_merchants.
C9_Witness ==
    /\ FailedIn({"uf_drop"})
    /\ db.dim_merchants # hist.start.dim_merchants
    /\ db.fact_daily_merchant_metrics = hist.start.fact_daily_merchant_metrics
    /\ MergeFacts(db.fact_daily_merchant_metrics, db.stg_daily_metrics, run)
          # db.fact_daily_merchant_metrics

\* the (UTC calendar date, merchant_id) pair of the k-th cleaned transaction
Pair(k) == <<clean_txns[k].txn_ts.ts \div HoursPerDay, clean_txns[k].merchant_id>>

Pairs == {Pair(k) : k \in 1..Len(clean_txns)}

\* the sum of f over S
RECURSIVE SumOver(_, _)
SumOver(S, f) ==
    IF S = {} THEN 0
    ELSE LET x == CHOOSE y \in S : TRUE IN f[x] + SumOver(S \ {x}, f)

Transformed ==
    /\ pc \notin {"extract", "validate", "transform"}
    /\ ~(pc = "failed" /\ hist.at = "validate")

\* C10: the daily rows are one row for each (UTC date, merchant_id) pair of
\* the cleaned transactions and none for another pair; a row's txn_count is the
\* number of cleaned transactions of its pair, at least 1, and its
\* gross_amount the sum of their amounts; the txn_count values add up to
\* txns_valid; daily_rows and fact_rows_upserted are the number of pairs.
C10_OneRowPerPair ==
    Transformed =>
        /\ {FactKey(d) : d \in daily} = Pairs
        /\ Cardinality(daily) = Cardinality(Pairs)
        /\ \A d \in daily :
              LET members == {k \in 1..Len(clean_txns) : Pair(k) = FactKey(d)}
              IN /\ d.txn_count = Cardinality(members)
                 /\ d.txn_count >= 1
                 /\ d.gross_amount
                       = SumOver(members,
                                 [k \in members |-> clean_txns[k].amount_num.num])
        /\ SumOver(daily, [d \in daily |-> d.txn_count]) = stats.txns_valid
        /\ pc \in UpsertFactsPcs \cup {"print_summary", "done"} =>
              stats.daily_rows = Cardinality(Pairs)
        /\ pc \in {"print_summary", "done"} =>
              stats.fact_rows_upserted = Cardinality(Pairs)

\* C10 witness: a finished run over two cleaned transactions of two pairs, one
\* of them on the UTC date after the date its timestamp is written with.
C10_Witness ==
    /\ pc = "done"
    /\ stats.txns_valid = 2
    /\ Cardinality(daily) = 2
    /\ stats.fact_rows_upserted = 2
    /\ \E k \in 1..Len(clean_txns) :
          /\ clean_txns[k].txn_ts_utc[1] = "2026-01-01"
          /\ \E d \in daily : d.metric_date = 2 /\ FactKey(d) = Pair(k)

-----------------------------------------------------------------------------
(* Properties of two concurrent runs *)

Completed(p) == pc[p] \in {"print_summary", "done"}

Ended == \A p \in Runs : Completed(p) \/ pc[p] = "failed"

\* the rows each run presents to its loads
PresentedMerchants(p) == Range(merchants_to_load(merchants[p]))

PresentedFacts(p) == daily[p]

\* dim_merchants holds the key of r with the values of r
DimHolds(r) ==
    \E d \in db.dim_merchants :
       /\ d.merchant_id = r.merchant_id
       /\ d.merchant_name = r.merchant_name
       /\ d.category = r.category
       /\ d.city = r.city
       /\ d.state = r.state

\* fact_daily_merchant_metrics holds the key of r with the values of r
FactHolds(r) ==
    \E f \in db.fact_daily_merchant_metrics : f = FactRow(r, f.loaded_at_utc)

\* a key both runs present holds the values of the run last, a key one run
\* presents holds that run's values
LastWriterWinsMerchants(last) ==
    \A p \in Runs : \A r \in PresentedMerchants(p) :
       IF \E q \in Runs \ {p} : \E r2 \in PresentedMerchants(q) :
             MerchKey(r2) = MerchKey(r)
       THEN last = p => DimHolds(r)
       ELSE DimHolds(r)

LastWriterWinsFacts(last) ==
    \A p \in Runs : \A r \in PresentedFacts(p) :
       IF \E q \in Runs \ {p} : \E r2 \in PresentedFacts(q) :
             FactKey(r2) = FactKey(r)
       THEN last = p => FactHolds(r)
       ELSE FactHolds(r)

\* C11 as claimed: whatever the interleaving of two runs sharing the staging
\* tables, both runs complete their loads, a key both present holds the values
\* of the run whose merge happened last, and a key one run presents holds that
\* run's values.
C11_LastWriterWins ==
    Ended =>
        /\ \A p \in Runs : Completed(p)
        /\ hist.last_m \in Runs
        /\ hist.last_f \in Runs
        /\ LastWriterWinsMerchants(hist.last_m)
        /\ LastWriterWinsFacts(hist.last_f)

\* every target row is as before the runs or is the upsert of a row one of the
\* runs presented for its key, and no key has two rows
TargetsFromPresentedRows ==
    /\ \A d \in db.dim_merchants :
          \/ d \in hist.start.dim_merchants
          \/ \E p \in Runs : \E r \in PresentedMerchants(p) :
                /\ d.merchant_id = r.merchant_id
                /\ d.merchant_name = r.merchant_name
                /\ d.category = r.category
                /\ d.city = r.city
                /\ d.state = r.state
                /\ \/ \E b \in hist.start.dim_merchants :
                         /\ b.merchant_id = d.merchant_id
                         /\ b.created_at_utc = d.created_at_utc
                   \/ /\ \A b \in hist.start.dim_merchants :
                            b.merchant_id # d.merchant_id
                      /\ d.created_at_utc \in Runs
    /\ \A d1, d2 \in db.dim_merchants : MerchKey(d1) = MerchKey(d2) => d1 = d2
    /\ \A f \in db.fact_daily_merchant_metrics :
          \/ f \in hist.start.fact_daily_merchant_metrics
          \/ \E p \in Runs : \E r \in PresentedFacts(p) :
                /\ f = FactRow(r, f.loaded_at_utc)
                /\ \/ \E b \in hist.start.fact_daily_merchant_metrics :
                         /\ FactKey(b) = FactKey(f)
                         /\ b.loaded_at_utc = f.loaded_at_utc
                   \/ /\ \A b \in hist.start.fact_daily_merchant_metrics :
                            FactKey(b) # FactKey(f)
                      /\ f.loaded_at_utc \in Runs
    /\ \A f1, f2 \in db.fact_daily_merchant_metrics :
          FactKey(f1) = FactKey(f2) => f1 = f2

\* C11 amended: when the loads of the two runs on an entity do not overlap
\* (neither run starts the load while the other is inside it), both loads
\* complete, a key both runs present holds the values of the run whose merge
\* happened last, and a key one run presents holds that run's values.  When
\* they overlap a load can fail, or return without having merged its rows;
\* in every interleaving each target row is as before the runs or the upsert
\* of a row one of the runs presented for its key, and no key has two rows.
C11_SerializedLastWriterWins ==
    /\ TargetsFromPresentedRows
    /\ (~hist.overlap_m /\ \A p \in Runs : pc[p] \notin LoadMerchantsPcs) =>
          /\ \A p \in Runs : hist.at[p] \notin LoadMerchantsPcs
          /\ hist.last_m \in Runs
          /\ LastWriterWinsMerchants(hist.last_m)
    /\ (~hist.overlap_m /\ ~hist.overlap_f /\ Ended) =>
          /\ \A p \in Runs : Completed(p)
          /\ db.stg_merchants = Absent
          /\ db.stg_daily_metrics = Absent
          /\ hist.last_f \in Runs
          /\ LastWriterWinsFacts(hist.last_f)

\* C11 witness: the loads of merchants overlapped and both runs ended.  Run 2
\* replaced the staging table after run 1 had staged its rows; run 1 merged
\* the rows of run 2 and dropped the table, so that run 2 failed at its MERGE.
\* A merchant both presented, with different values, holds those of run 2,
\* whose merge never happened.
C11_Witness ==
    /\ Ended
    /\ hist.overlap_m
    /\ Completed(1)
    /\ hist.last_m = 1
    /\ pc[2] = "failed"
    /\ hist.at[2] = "lm_merge"
    /\ err[2] = SinkError("invalid_object")
    /\ \E r1 \in PresentedMerchants(1) : \E r2 \in PresentedMerchants(2) :
          /\ MerchKey(r1) = MerchKey(r2)
          /\ r1 # r2
          /\ DimHolds(r2)
          /\ ~DimHolds(r1)

====
